---- MODULE Spec2Model ----
(***************************************************************************)
(* OpenAIProvider (mlflow/gateway/providers/openai.py): the adapter that   *)
(* translates the gateway's chat / completions / embeddings requests into  *)
(* the OpenAI wire format, awaits send_request once, and normalises the    *)
(* provider's answer.                                                      *)
(*                                                                         *)
(* Conventions of the model                                                *)
(*  - An optional Python value is a tuple: <<>> is None, <<v>> is v.       *)
(*  - A dict is a function whose DOMAIN is its key set.                    *)
(*  - A temperature is a fixed-point number in units of 1/TempScale, so    *)
(*    the canonical range [0,1] is 0..TempScale and the provider's range   *)
(*    [0,2] is 0..2*TempScale.  Doubling a float is exact, so the integer  *)
(*    product is what the code computes.                                   *)
(*  - A coroutine runs without interruption between two awaits, so each    *)
(*    method is two steps: entry up to `await send_request(...)`, and the  *)
(*    resumption (normalisation or a propagated exception).                *)
(***************************************************************************)
EXTENDS Integers, Sequences, FiniteSets, TLC

VARIABLES adapter, calls

vars == <<adapter, calls>>

(* ---------------------------- bounds ----------------------------------- *)

\* Resolution of the temperature grid: t = v / TempScale for v in 0..TempScale.
TempScale == 2
\* Longest choice / data list the provider returns.
MaxChoices == 2
\* Largest candidate_count (and literal n) a caller asks for.
MaxCandidates == 2
\* Number of calls that may be in flight on the adapter at once (SpecConc).
NumCalls == 2

None == <<>>
Some(v) == <<v>>
Val(o) == o[1]

(* ------------------------ route configuration -------------------------- *)

ModelNames == {"gpt-x"}
RouteTypes == {"llm/v1/chat", "llm/v1/embeddings"}
ApiKeys == {"key"}
ApiBases == {"https://api.openai.com/v1"}
\* openai_organization: Optional[str]; the empty string is a falsy str.
Organizations == {None, Some(""), Some("org")}

\* config.model.config: None, an OpenAIConfig, or another provider's config.
OpenAIConfigs ==
    [kind : {"OpenAIConfig"}, openai_api_key : ApiKeys,
     openai_organization : Organizations, openai_api_base : ApiBases]

OtherConfigs ==
    [kind : {"None", "AnthropicConfig"}, openai_api_key : {"key"},
     openai_organization : {None}, openai_api_base : {""}]

\* RouteConfig: config.model.name, config.model.config, config.route_type.
RouteConfigs ==
    [model : [name : ModelNames, config : OpenAIConfigs \cup OtherConfigs],
     route_type : RouteTypes]

\* A small family of configurations for the interleaving specification.
ConcRouteConfigs ==
    {rc \in RouteConfigs :
        /\ rc.route_type = "llm/v1/chat"
        /\ rc.model.config.kind = "OpenAIConfig"
        /\ rc.model.config.openai_organization \in {None, Some("org")}}

NoConfig ==
    [model |-> [name |-> "",
                config |-> [kind |-> "None", openai_api_key |-> "",
                            openai_organization |-> None, openai_api_base |-> ""]],
     route_type |-> ""]

(* --------------------------- canonical requests ------------------------ *)
(* A request object is a function from its attribute names to optional     *)
(* values.  `n` and `model` are extra attributes a caller may set beside   *)
(* the schema's own fields.                                                *)

Temperatures == 0..TempScale
Counts == 1..MaxCandidates

MessageLists ==
    { << [role |-> "user", content |-> "Say hi"] >>,
      << [role |-> "system", content |-> "Be brief"],
         [role |-> "user", content |-> "Say hi"] >> }

Prompts == {"Say hi", "Count"}
Texts == {"embed me", "me too"}
CallerModels == {"caller-model"}

Opt(S) == {None} \cup {Some(v) : v \in S}

ChatRequests ==
    [messages : {Some(m) : m \in MessageLists}, temperature : Opt(Temperatures),
     candidate_count : Opt(Counts), n : Opt({1}), model : Opt(CallerModels)]

CompletionsRequests ==
    [prompt : {Some(p) : p \in Prompts}, temperature : Opt(Temperatures),
     candidate_count : Opt(Counts), n : Opt({1}), model : Opt(CallerModels)]

EmbeddingsRequests ==
    [text : {Some(t) : t \in Texts}, model : Opt(CallerModels)]

(* ------------------------------ helpers -------------------------------- *)

\* fastapi's jsonable_encoder(payload, exclude_none=True): the object as a
\* dict, without the attributes whose value is None.
jsonable_encoder(payload) ==
    [k \in {a \in DOMAIN payload : payload[a] # None} |-> Val(payload[k])]

\* utils.rename_payload_keys: every key the mapping names is renamed, the
\* other keys and all values are kept.
rename_payload_keys(payload, mapping) ==
    LET new(k) == IF k \in DOMAIN mapping THEN mapping[k] ELSE k
    IN  [k2 \in {new(k) : k \in DOMAIN payload} |->
            payload[CHOOSE k \in DOMAIN payload : new(k) = k2]]

\* Mutant: the table written the wrong way round.
chat_renames_reversed == [n |-> "candidate_count"]

\* {"candidate_count": "n"} of chat and of completions, {"text": "input"}
\* of embeddings.
chat_renames == [candidate_count |-> "n"]
completions_renames == [candidate_count |-> "n"]
embeddings_renames == [text |-> "input"]

\* Mutant: the membership test names the canonical key.
chat_rejects_candidate_count(payload) == "candidate_count" \in DOMAIN payload

\* if "n" in payload: raise HTTPException(status_code=400, ...)
chat_rejects(payload) == "n" \in DOMAIN payload
completions_rejects(payload) == "n" \in DOMAIN payload

\* Mutant: the rescaled value clamped to the canonical maximum.
completions_temperature_clamped(payload) ==
    [payload EXCEPT !["temperature"] =
        IF 2 * @ > TempScale THEN TempScale ELSE 2 * @]

\* payload["temperature"] = 2 * payload["temperature"].  Reading the key
\* raises KeyError when it is missing: has_temperature is that lookup's
\* success, and the scaling is applied only when it succeeds.
has_temperature(payload) == "temperature" \in DOMAIN payload

chat_temperature(payload) ==
    [payload EXCEPT !["temperature"] = 2 * @]

completions_temperature(payload) ==
    [payload EXCEPT !["temperature"] = 2 * @]

\* Mutant: the prompt read with payload["prompt"], not popped.
prompt_kept(payload) ==
    ("messages" :> << [role |-> "user", content |-> payload["prompt"]] >>)
        @@ payload

\* payload["messages"] = [{"role": "user", "content": payload.pop("prompt")}]
prompt_to_messages(payload) ==
    LET rest == [k \in DOMAIN payload \ {"prompt"} |-> payload[k]]
    IN  ("messages" :> << [role |-> "user", content |-> payload["prompt"]] >>)
            @@ rest

\* {"model": self.config.model.name, **payload}: in a dict display a later
\* key replaces an earlier one, so the entries of payload take precedence.
chat_wire(config, payload) ==
    payload @@ ("model" :> config.model.name)

completions_wire(config, payload) ==
    payload @@ ("model" :> config.model.name)

embeddings_wire(config, payload) ==
    payload @@ ("model" :> config.model.name)

(* --------------------------- provider responses ------------------------ *)

EchoedModels == {"gpt-x-0301"}

ChoiceBodies ==
    { [message |-> [role |-> "assistant", content |-> "hi"],
       finish_reason |-> "stop"],
      [message |-> [role |-> "assistant", content |-> "\n\nThis is a test!"],
       finish_reason |-> "length"] }

Vectors == { <<1, 2>>, <<3>> }

ListsOf(S) == UNION { [1..len -> S] : len \in 0..MaxChoices }

\* The provider numbers its entries: "index": 0, 1, ...
ChoiceLists ==
    { [i \in 1..Len(l) |->
          [message |-> l[i].message, finish_reason |-> l[i].finish_reason,
           index |-> i - 1]] : l \in ListsOf(ChoiceBodies) }

DataLists ==
    { [i \in 1..Len(l) |->
          [object |-> "embedding", embedding |-> l[i], index |-> i - 1]]
      : l \in ListsOf(Vectors) }

ChatUsages ==
    { [prompt_tokens |-> 13, completion_tokens |-> 7, total_tokens |-> 20],
      [prompt_tokens |-> 5, completion_tokens |-> 1, total_tokens |-> 6] }

\* The embeddings endpoint reports no completion_tokens; a provider that
\* reports one anyway is covered too.
EmbeddingsUsages ==
    { [prompt_tokens |-> 8, total_tokens |-> 9],
      [prompt_tokens |-> 4, completion_tokens |-> 3, total_tokens |-> 7] }

ChatResponses ==
    [model : EchoedModels, choices : ChoiceLists, usage : ChatUsages]

EmbeddingsResponses ==
    [model : EchoedModels, data : DataLists, usage : EmbeddingsUsages]

Without(f, key) == [k \in DOMAIN f \ {key} |-> f[k]]

\* Bodies that lack a key the normalisation reads.
MalformedResponses ==
    LET chatBase == CHOOSE r \in ChatResponses : Len(r.choices) = 1
        embBase == CHOOSE r \in EmbeddingsResponses : Len(r.data) = 1
    IN  { Without(chatBase, k) : k \in {"model", "choices", "usage"} }
        \cup { Without(embBase, "data") }
        \cup { [chatBase EXCEPT !.usage = Without(@, "completion_tokens")] }

Responses == ChatResponses \cup EmbeddingsResponses \cup MalformedResponses

\* The errors send_request raises (a non-2xx status, a transport failure).
TransportErrors == {"HTTPException(500)", "ClientConnectionError"}

(* ------------------------------ normalisation -------------------------- *)

\* The lookups of chat's and completions' return expression all succeed.
chat_readable(resp) ==
    /\ {"choices", "usage", "model"} \subseteq DOMAIN resp
    /\ {"prompt_tokens", "completion_tokens", "total_tokens"}
           \subseteq DOMAIN resp.usage

embeddings_readable(resp) ==
    /\ {"data", "usage", "model"} \subseteq DOMAIN resp
    /\ {"prompt_tokens", "total_tokens"} \subseteq DOMAIN resp.usage

\* Mutant: output_tokens read from the wrong usage field.
chat_response_wrong_usage(config, resp) ==
    [candidates |->
        [i \in 1..Len(resp.choices) |->
            [message |-> [role |-> resp.choices[i].message.role,
                          content |-> resp.choices[i].message.content],
             metadata |-> [finish_reason |-> resp.choices[i].finish_reason]]],
     metadata |->
        [input_tokens |-> resp.usage.prompt_tokens,
         output_tokens |-> resp.usage.total_tokens,
         total_tokens |-> resp.usage.total_tokens,
         model |-> resp.model,
         route_type |-> config.route_type]]

\* chat.ResponsePayload(**{...})
chat_response(config, resp) ==
    [candidates |->
        [i \in 1..Len(resp.choices) |->
            [message |-> [role |-> resp.choices[i].message.role,
                          content |-> resp.choices[i].message.content],
             metadata |-> [finish_reason |-> resp.choices[i].finish_reason]]],
     metadata |->
        [input_tokens |-> resp.usage.prompt_tokens,
         output_tokens |-> resp.usage.completion_tokens,
         total_tokens |-> resp.usage.total_tokens,
         model |-> resp.model,
         route_type |-> config.route_type]]

\* completions.ResponsePayload(**{...})
completions_response(config, resp) ==
    [candidates |->
        [i \in 1..Len(resp.choices) |->
            [text |-> resp.choices[i].message.content,
             metadata |-> [finish_reason |-> resp.choices[i].finish_reason]]],
     metadata |->
        [input_tokens |-> resp.usage.prompt_tokens,
         output_tokens |-> resp.usage.completion_tokens,
         total_tokens |-> resp.usage.total_tokens,
         model |-> resp.model,
         route_type |-> config.route_type]]

\* Mutant: output_tokens copied from the provider when it reports one.
embeddings_response_copies_output(config, resp) ==
    [embeddings |-> [i \in 1..Len(resp.data) |-> resp.data[i].embedding],
     metadata |->
        [input_tokens |-> resp.usage.prompt_tokens,
         output_tokens |->
            IF "completion_tokens" \in DOMAIN resp.usage
            THEN resp.usage.completion_tokens ELSE 0,
         total_tokens |-> resp.usage.total_tokens,
         model |-> resp.model,
         route_type |-> config.route_type]]

\* embeddings.ResponsePayload(**{...})
embeddings_response(config, resp) ==
    [embeddings |-> [i \in 1..Len(resp.data) |-> resp.data[i].embedding],
     metadata |->
        [input_tokens |-> resp.usage.prompt_tokens,
         output_tokens |-> 0,
         total_tokens |-> resp.usage.total_tokens,
         model |-> resp.model,
         route_type |-> config.route_type]]

(* ------------------------------ construction --------------------------- *)

\* Mutant: only the None test, without the isinstance test.
valid_config_not_none(config) == config.model.config.kind # "None"

\* not (config.model.config is None
\*      or not isinstance(config.model.config, OpenAIConfig))
valid_config(config) == config.model.config.kind = "OpenAIConfig"

\* Truth value of an Optional[str]: None and "" are falsy.
truthy(org) == org # None /\ Val(org) # ""

\* self.headers = {"Authorization": f"Bearer {key}"}, then
\* if org := openai_organization: self.headers["OpenAI-Organization"] = org
init_headers(openai_config) ==
    LET auth == "Authorization" :> ("Bearer " \o openai_config.openai_api_key)
        org == openai_config.openai_organization
    IN  IF truthy(org) THEN auth @@ ("OpenAI-Organization" :> Val(org))
        ELSE auth

NoHeaders == [k \in {} |-> ""]

Unbuilt ==
    [state |-> "unbuilt", config |-> NoConfig, headers |-> NoHeaders,
     base_url |-> "", error |-> ""]

\* OpenAIProvider.__init__(config): BaseProvider.__init__ stores config; a
\* missing or foreign provider config raises TypeError and no instance is
\* bound; otherwise headers and base_url are derived.
OpenAIProvider(config) ==
    /\ adapter.state = "unbuilt"
    /\ adapter' =
         IF valid_config(config)
         THEN [state |-> "ready", config |-> config,
               headers |-> init_headers(config.model.config),
               base_url |-> config.model.config.openai_api_base,
               error |-> ""]
         ELSE [state |-> "failed", config |-> config, headers |-> NoHeaders,
               base_url |-> "", error |-> "TypeError"]
    /\ UNCHANGED calls

(* --------------------------------- calls ------------------------------- *)

Idle ==
    [pc |-> "idle", op |-> "", req |-> None, sent |-> <<>>, resp |-> None,
     result |-> None, error |-> ""]

\* One invocation of utils.send_request, as the sender sees it.
send_request(headers, base_url, path, payload) ==
    [headers |-> headers, base_url |-> base_url, path |-> path,
     payload |-> payload]

Raised(op, req, error) ==
    [pc |-> "failed", op |-> op, req |-> Some(req), sent |-> <<>>,
     resp |-> None, result |-> None, error |-> error]

Awaiting(op, req, invocation) ==
    [pc |-> "awaiting", op |-> op, req |-> Some(req),
     sent |-> <<invocation>>, resp |-> None, result |-> None, error |-> ""]

\* chat(), up to the await: serialise, reject `n`, rename, rescale the
\* temperature, compose the payload and hand it to send_request.
chat(c, payload) ==
    /\ adapter.state = "ready"
    /\ calls[c].pc = "idle"
    /\ LET encoded == jsonable_encoder(payload)
           renamed == rename_payload_keys(encoded, chat_renames)
       IN  calls' = [calls EXCEPT ![c] =
             IF chat_rejects(encoded)
             THEN Raised("chat", payload, "HTTPException(400)")
             ELSE IF ~has_temperature(renamed)
             THEN Raised("chat", payload, "KeyError")
             ELSE Awaiting("chat", payload,
                    send_request(adapter.headers, adapter.base_url,
                        "chat/completions",
                        chat_wire(adapter.config, chat_temperature(renamed))))]
    /\ UNCHANGED adapter

\* completions(), up to the await: as chat, and the prompt becomes one
\* user message.
completions(c, payload) ==
    /\ adapter.state = "ready"
    /\ calls[c].pc = "idle"
    /\ LET encoded == jsonable_encoder(payload)
           renamed == rename_payload_keys(encoded, completions_renames)
       IN  calls' = [calls EXCEPT ![c] =
             IF completions_rejects(encoded)
             THEN Raised("completions", payload, "HTTPException(400)")
             ELSE IF ~has_temperature(renamed)
             THEN Raised("completions", payload, "KeyError")
             ELSE Awaiting("completions", payload,
                    send_request(adapter.headers, adapter.base_url,
                        "chat/completions",
                        completions_wire(adapter.config,
                            prompt_to_messages(
                                completions_temperature(renamed)))))]
    /\ UNCHANGED adapter

\* embeddings(), up to the await: serialise, rename text to input, compose
\* the payload and hand it to send_request.
embeddings(c, payload) ==
    /\ adapter.state = "ready"
    /\ calls[c].pc = "idle"
    /\ LET renamed == rename_payload_keys(jsonable_encoder(payload),
                                          embeddings_renames)
       IN  calls' = [calls EXCEPT ![c] =
             Awaiting("embeddings", payload,
                send_request(adapter.headers, adapter.base_url, "embeddings",
                    embeddings_wire(adapter.config, renamed)))]
    /\ UNCHANGED adapter

Returned(call, resp, result) ==
    [call EXCEPT !.pc = "done", !.resp = Some(resp), !.result = Some(result)]

LookupFailed(call, resp) ==
    [call EXCEPT !.pc = "failed", !.resp = Some(resp), !.error = "KeyError"]

\* chat() resumed with the parsed body: the return expression, or the
\* KeyError of its first failing lookup.
chat_resume(c, resp) ==
    /\ calls[c].pc = "awaiting"
    /\ calls[c].op = "chat"
    /\ calls' = [calls EXCEPT ![c] =
         IF chat_readable(resp)
         THEN Returned(@, resp, chat_response(adapter.config, resp))
         ELSE LookupFailed(@, resp)]
    /\ UNCHANGED adapter

completions_resume(c, resp) ==
    /\ calls[c].pc = "awaiting"
    /\ calls[c].op = "completions"
    /\ calls' = [calls EXCEPT ![c] =
         IF chat_readable(resp)
         THEN Returned(@, resp, completions_response(adapter.config, resp))
         ELSE LookupFailed(@, resp)]
    /\ UNCHANGED adapter

embeddings_resume(c, resp) ==
    /\ calls[c].pc = "awaiting"
    /\ calls[c].op = "embeddings"
    /\ calls' = [calls EXCEPT ![c] =
         IF embeddings_readable(resp)
         THEN Returned(@, resp, embeddings_response(adapter.config, resp))
         ELSE LookupFailed(@, resp)]
    /\ UNCHANGED adapter

\* The await raises: no handler encloses it, the exception leaves the
\* method as it is.
send_request_raises(c, e) ==
    /\ calls[c].pc = "awaiting"
    /\ calls' = [calls EXCEPT ![c].pc = "failed", ![c].error = e]
    /\ UNCHANGED adapter

\* The caller has the outcome; the call's objects are dropped.
Discard(c) ==
    /\ calls[c].pc \in {"done", "failed"}
    /\ calls' = [calls EXCEPT ![c] = Idle]
    /\ UNCHANGED adapter

(* ----------------------------- specifications -------------------------- *)

CallIds == 1..NumCalls

Init ==
    /\ adapter = Unbuilt
    /\ calls = [c \in CallIds |-> Idle]

\* Spec: every request and response shape, one call at a time (the calls
\* share nothing but the adapter, which no call writes).
OneCall == {CHOOSE c \in CallIds : TRUE}

Next ==
    \/ \E config \in RouteConfigs : OpenAIProvider(config)
    \/ \E c \in OneCall :
        \/ \E payload \in ChatRequests : chat(c, payload)
        \/ \E payload \in CompletionsRequests : completions(c, payload)
        \/ \E payload \in EmbeddingsRequests : embeddings(c, payload)
        \/ \E resp \in Responses : chat_resume(c, resp)
        \/ \E resp \in Responses : completions_resume(c, resp)
        \/ \E resp \in Responses : embeddings_resume(c, resp)
        \/ \E e \in TransportErrors : send_request_raises(c, e)
        \/ Discard(c)

Spec == Init /\ [][Next]_vars

\* SpecConc: NumCalls calls in flight at once, in any interleaving, over a
\* small family of requests and responses.
ConcChatRequests ==
    {r \in ChatRequests :
        /\ Len(Val(r.messages)) = 1
        /\ r.temperature \in {None, Some(TempScale)}
        /\ r.candidate_count = None
        /\ r.model = None}

ConcCompletionsRequests ==
    {r \in CompletionsRequests :
        /\ Val(r.prompt) = "Say hi"
        /\ r.temperature = Some(0)
        /\ r.candidate_count = Some(1)
        /\ r.n = None
        /\ r.model = None}

ConcEmbeddingsRequests ==
    {r \in EmbeddingsRequests : Val(r.text) = "embed me" /\ r.model = None}

ConcResponses ==
    { CHOOSE r \in ChatResponses : Len(r.choices) = 1,
      CHOOSE r \in EmbeddingsResponses : Len(r.data) = 1,
      CHOOSE r \in MalformedResponses : "usage" \notin DOMAIN r }

ConcErrors == {"HTTPException(500)"}

NextConc ==
    \/ \E config \in ConcRouteConfigs : OpenAIProvider(config)
    \/ \E c \in CallIds :
        \/ \E payload \in ConcChatRequests : chat(c, payload)
        \/ \E payload \in ConcCompletionsRequests : completions(c, payload)
        \/ \E payload \in ConcEmbeddingsRequests : embeddings(c, payload)
        \/ \E resp \in ConcResponses : chat_resume(c, resp)
        \/ \E resp \in ConcResponses : completions_resume(c, resp)
        \/ \E resp \in ConcResponses : embeddings_resume(c, resp)
        \/ \E e \in ConcErrors : send_request_raises(c, e)
        \/ Discard(c)

SpecConc == Init /\ [][NextConc]_vars

(* -------------------------------- claims ------------------------------- *)

\* The call in slot c has been entered (its first step has run).
Entered(c) == calls[c].pc # "idle"
Request(c) == Val(calls[c].req)
\* The serialised mapping of the call's request.
Serialized(c) == jsonable_encoder(Request(c))
\* The call has invoked send_request, and with which payload and path.
HasSent(c) == calls[c].sent # <<>>
Wire(c) == calls[c].sent[1].payload
Path(c) == calls[c].sent[1].path
IsChatLike(c) == calls[c].op \in {"chat", "completions"}

\* C1: a chat or completions call whose serialised request has a key `n`
\* has failed with HTTPException(400) and has never invoked send_request.
C1_RejectsLiteralN ==
    \A c \in CallIds :
        (Entered(c) /\ IsChatLike(c) /\ "n" \in DOMAIN Serialized(c))
            => /\ calls[c].pc = "failed"
               /\ calls[c].error = "HTTPException(400)"
               /\ ~HasSent(c)
               /\ calls[c].result = None

C1_Witness ==
    \E c \in CallIds :
        /\ calls[c].op = "completions"
        /\ Entered(c)
        /\ "n" \in DOMAIN Serialized(c)
        /\ "temperature" \in DOMAIN Serialized(c)
        /\ calls[c].error = "HTTPException(400)"

\* C2: the `model` of every payload handed to send_request is the model
\* name of the adapter's route configuration.
C2_ModelFromConfig ==
    \A c \in CallIds :
        HasSent(c) => Wire(c)["model"] = adapter.config.model.name

\* C3 as stated: with candidate_count = k the payload sent has n = k, has
\* no candidate_count, and has every other key of the serialised request.
C3_AsStated ==
    \A c \in CallIds :
        (IsChatLike(c) /\ HasSent(c)
         /\ "candidate_count" \in DOMAIN Serialized(c))
            => /\ "n" \in DOMAIN Wire(c)
               /\ Wire(c)["n"] = Serialized(c)["candidate_count"]
               /\ "candidate_count" \notin DOMAIN Wire(c)
               /\ DOMAIN Serialized(c) \ {"candidate_count"}
                      \subseteq DOMAIN Wire(c)

\* C3 (amended): with candidate_count = k the payload sent has n = k, has no
\* candidate_count, and has every other key of the serialised request
\* except the `prompt` of a completions request (which is replaced by
\* `messages`).
C3_CandidateCountBecomesN ==
    \A c \in CallIds :
        (IsChatLike(c) /\ HasSent(c)
         /\ "candidate_count" \in DOMAIN Serialized(c))
            => LET kept == DOMAIN Serialized(c) \ {"candidate_count"}
                   prompt == IF calls[c].op = "completions"
                             THEN {"prompt"} ELSE {}
               IN  /\ "n" \in DOMAIN Wire(c)
                   /\ Wire(c)["n"] = Serialized(c)["candidate_count"]
                   /\ "candidate_count" \notin DOMAIN Wire(c)
                   /\ (kept \ prompt) \subseteq DOMAIN Wire(c)

C3_Witness ==
    \E c \in CallIds :
        /\ calls[c].op = "chat"
        /\ HasSent(c)
        /\ "candidate_count" \in DOMAIN Serialized(c)
        /\ Serialized(c)["candidate_count"] = MaxCandidates
        /\ Wire(c)["n"] = MaxCandidates

\* C4: a canonical temperature t in [0,1] (0..TempScale on the grid) goes
\* out as exactly 2t, unclamped, so within [0,2] (0..2*TempScale).
C4_TemperatureDoubled ==
    \A c \in CallIds :
        (IsChatLike(c) /\ HasSent(c)
         /\ "temperature" \in DOMAIN Serialized(c)
         /\ Serialized(c)["temperature"] \in 0..TempScale)
            => /\ "temperature" \in DOMAIN Wire(c)
               /\ Wire(c)["temperature"] = 2 * Serialized(c)["temperature"]
               /\ Wire(c)["temperature"] \in 0..(2 * TempScale)

C4_Witness ==
    \E c \in CallIds :
        /\ calls[c].op = "completions"
        /\ HasSent(c)
        /\ Serialized(c)["temperature"] = TempScale
        /\ Wire(c)["temperature"] = 2 * TempScale

\* C5: a completions call sends, to chat/completions, `messages` equal to
\* the one message [role user, content prompt] and no `prompt`; each
\* candidate's text is the message content of the choice at its position.
C5_PromptAsUserMessage ==
    \A c \in CallIds :
        (calls[c].op = "completions" /\ HasSent(c))
            => /\ Path(c) = "chat/completions"
               /\ "messages" \in DOMAIN Wire(c)
               /\ Wire(c)["messages"] =
                    << [role |-> "user", content |-> Serialized(c)["prompt"]] >>
               /\ "prompt" \notin DOMAIN Wire(c)
               /\ calls[c].pc = "done" =>
                    LET choices == Val(calls[c].resp)["choices"]
                        candidates == Val(calls[c].result).candidates
                    IN  /\ Len(candidates) = Len(choices)
                        /\ \A i \in 1..Len(choices) :
                             candidates[i].text = choices[i].message.content

C5_Witness ==
    \E c \in CallIds :
        /\ calls[c].op = "completions"
        /\ calls[c].pc = "done"
        /\ Serialized(c)["prompt"] = "Say hi"
        /\ LET choices == Val(calls[c].resp)["choices"]
           IN  /\ Len(choices) = MaxChoices
               /\ choices[1].message.content # choices[2].message.content

\* C6: a chat call that returns has one candidate per provider choice, in
\* order, with that choice's role, content and finish_reason; its metadata
\* is the provider's usage, the echoed model and the adapter's route type.
C6_ChatResponseNormalised ==
    \A c \in CallIds :
        (calls[c].op = "chat" /\ calls[c].pc = "done")
            => LET resp == Val(calls[c].resp)
                   result == Val(calls[c].result)
               IN  /\ Len(result.candidates) = Len(resp["choices"])
                   /\ \A i \in 1..Len(resp["choices"]) :
                        /\ result.candidates[i].message.role =
                             resp["choices"][i].message.role
                        /\ result.candidates[i].message.content =
                             resp["choices"][i].message.content
                        /\ result.candidates[i].metadata.finish_reason =
                             resp["choices"][i].finish_reason
                   /\ result.metadata.input_tokens =
                        resp["usage"]["prompt_tokens"]
                   /\ result.metadata.output_tokens =
                        resp["usage"]["completion_tokens"]
                   /\ result.metadata.total_tokens =
                        resp["usage"]["total_tokens"]
                   /\ result.metadata.model = resp["model"]
                   /\ result.metadata.route_type = adapter.config.route_type

C6_Witness ==
    \E c \in CallIds :
        /\ calls[c].op = "chat"
        /\ calls[c].pc = "done"
        /\ LET resp == Val(calls[c].resp)
           IN  /\ Len(resp["choices"]) = MaxChoices
               /\ resp["choices"][1] # resp["choices"][2]
               /\ resp["usage"]["prompt_tokens"] = 13
               /\ Val(calls[c].result).metadata.total_tokens = 20

\* C7: an embeddings call that returns reports output_tokens = 0 whatever
\* the provider's usage block says, and copies prompt_tokens and
\* total_tokens from it.
C7_EmbeddingsOutputTokensZero ==
    \A c \in CallIds :
        (calls[c].op = "embeddings" /\ calls[c].pc = "done")
            => LET usage == Val(calls[c].resp)["usage"]
                   metadata == Val(calls[c].result).metadata
               IN  /\ metadata.output_tokens = 0
                   /\ metadata.input_tokens = usage["prompt_tokens"]
                   /\ metadata.total_tokens = usage["total_tokens"]

C7_Witness ==
    \E c \in CallIds :
        /\ calls[c].op = "embeddings"
        /\ calls[c].pc = "done"
        /\ LET usage == Val(calls[c].resp)["usage"]
           IN  /\ "completion_tokens" \in DOMAIN usage
               /\ usage["completion_tokens"] > 0
        /\ Val(calls[c].result).metadata.output_tokens = 0

\* C8: constructing from a configuration whose provider config is missing
\* or foreign raises (TypeError) and leaves no adapter, so no call is ever
\* entered; from an OpenAIConfig it succeeds and stores the Authorization
\* header, the organization header exactly when an organization id is
\* present (a non-empty openai_organization), and the base URL.
C8_ConstructionChecksConfig ==
    adapter.state # "unbuilt" =>
        LET pc == adapter.config.model.config
            org == pc.openai_organization
            present == org # None /\ Val(org) # ""
        IN  IF pc.kind = "OpenAIConfig"
            THEN /\ adapter.state = "ready"
                 /\ adapter.error = ""
                 /\ adapter.headers["Authorization"] =
                      "Bearer " \o pc.openai_api_key
                 /\ ("OpenAI-Organization" \in DOMAIN adapter.headers)
                      <=> present
                 /\ present =>
                      adapter.headers["OpenAI-Organization"] = Val(org)
                 /\ DOMAIN adapter.headers \subseteq
                      {"Authorization", "OpenAI-Organization"}
                 /\ adapter.base_url = pc.openai_api_base
            ELSE /\ adapter.state = "failed"
                 /\ adapter.error = "TypeError"
                 /\ \A c \in CallIds : calls[c] = Idle

C8_Witness ==
    /\ adapter.state = "failed"
    /\ adapter.config.model.config.kind = "AnthropicConfig"

C8_WitnessBuilt ==
    /\ adapter.state = "ready"
    /\ "OpenAI-Organization" \in DOMAIN adapter.headers
    /\ \E c \in CallIds : calls[c].pc = "done"

\* C9: a chat or completions request without a temperature (and without
\* `n`) is sent to the provider, with no temperature key in the payload,
\* rather than failing before the network call.
C9_AbsentTemperatureIsSent ==
    \A c \in CallIds :
        (Entered(c) /\ IsChatLike(c)
         /\ Request(c).temperature = None
         /\ "n" \notin DOMAIN Serialized(c))
            => /\ HasSent(c)
               /\ "temperature" \notin DOMAIN Wire(c)

\* The call in slot c passed local validation: the only local check is the
\* rejection of `n` in chat and completions.
PassedValidation(c) ==
    Entered(c) /\ (IsChatLike(c) => "n" \notin DOMAIN Serialized(c))

Finished(c) == calls[c].pc \in {"done", "failed"}

\* C10: a call that passed local validation invokes send_request exactly
\* once and then ends: with a canonical response if the body is
\* well-formed, with the sender's error or the lookup failure otherwise and
\* no response; never a second invocation; the adapter's headers, base URL
\* and model name are what construction set.
C10_OneSendThenOutcome ==
    \A c \in CallIds :
        /\ Len(calls[c].sent) <= 1
        /\ (PassedValidation(c) /\ Finished(c)) => Len(calls[c].sent) = 1
        /\ (PassedValidation(c) /\ calls[c].pc = "awaiting")
              => Len(calls[c].sent) = 1
        /\ calls[c].pc = "done"
              => /\ calls[c].result # None
                 /\ calls[c].error = ""
                 /\ IF calls[c].op = "embeddings"
                    THEN embeddings_readable(Val(calls[c].resp))
                    ELSE chat_readable(Val(calls[c].resp))
        /\ (calls[c].pc = "failed" /\ HasSent(c))
              => /\ calls[c].result = None
                 /\ IF calls[c].resp = None
                    THEN calls[c].error \in TransportErrors
                    ELSE calls[c].error = "KeyError"
        /\ HasSent(c)
              => /\ calls[c].sent[1].headers =
                      init_headers(adapter.config.model.config)
                 /\ calls[c].sent[1].base_url =
                      adapter.config.model.config.openai_api_base
                 /\ adapter.headers = calls[c].sent[1].headers
                 /\ adapter.base_url = calls[c].sent[1].base_url

\* What remains of C10 for the calls that reach the await (the requests
\* that carry a temperature, and every embeddings request).
ReachesAwait(c) ==
    PassedValidation(c)
        /\ (IsChatLike(c) => "temperature" \in DOMAIN Serialized(c))

C10_OneSendWhenAwaitReached ==
    \A c \in CallIds :
        /\ Len(calls[c].sent) <= 1
        /\ ReachesAwait(c) => Len(calls[c].sent) = 1
        /\ calls[c].pc = "done"
              => /\ calls[c].result # None
                 /\ IF calls[c].op = "embeddings"
                    THEN embeddings_readable(Val(calls[c].resp))
                    ELSE chat_readable(Val(calls[c].resp))
        /\ (calls[c].pc = "failed" /\ HasSent(c))
              => /\ calls[c].result = None
                 /\ IF calls[c].resp = None
                    THEN calls[c].error \in TransportErrors
                    ELSE calls[c].error = "KeyError"

\* No step of any call writes the adapter once it is built.
C10_AdapterReadOnly ==
    [][adapter.state = "ready" => adapter' = adapter]_vars

====
